---- MODULE Spec2Model ----
(***************************************************************************)
(* Model of twitter_chunker.chunk_text_for_twitter (src/twitter_chunker.py) *)
(* as a state machine.  A Python string is a sequence of one-character      *)
(* strings; a list is a sequence.  One action per straight-line block or    *)
(* loop iteration of the function.                                          *)
(***************************************************************************)
EXTENDS Integers, Sequences, FiniteSets, TLC

VARIABLES
    text,                 \* the argument of chunk_text_for_twitter
    pc,                   \* position: idle (not called yet), call, pack, format, done
    words,                \* line 29
    wi,                   \* 1-based position of the for loop of line 34 in words
    chunks,               \* line 30
    current_chunk_words,  \* line 31
    warnings,             \* line 32
    total_chunks,         \* line 51
    fi,                   \* the i of enumerate(chunks), line 57 (0-based)
    formatted_tweets,     \* line 52
    result,               \* the returned pair, <<formatted_tweets, warnings>>
    fmt,                  \* one iteration of the loop of lines 57-64 taken alone
    exp,                  \* a call of format_thread_for_export and the split of its result
    stats,                \* a call of get_thread_stats
    post                  \* a call of twitter_poster.post_thread and the display of its results

\* the variables of chunk_text_for_twitter
chunker == <<text, pc, words, wi, chunks, current_chunk_words, warnings,
             total_chunks, fi, formatted_tweets, result>>

\* the variables of the other functions
others == <<exp, stats, post>>

vars == <<chunker, fmt, others>>

-----------------------------------------------------------------------------
(* Program constants *)

MAX_TWEET_LENGTH == 280

INDICATOR_RESERVE == 15

content_limit == MAX_TWEET_LENGTH - INDICATOR_RESERVE

-----------------------------------------------------------------------------
(* Bounds of the model *)

MaxWords == 3

MaxRepeat == 11

MaxSegments == 3

-----------------------------------------------------------------------------
(* Python string primitives *)

Whitespace == {" ", "\n", "\t"}

IsSpace(c) == c \in Whitespace

Rep(c, n) == [k \in 1..n |-> c]

Take(s, n) == SubSeq(s, 1, IF Len(s) < n THEN Len(s) ELSE n)

\* the elements of a finite set of integers, ascending (T and, in Split, ss and
\* es are bound variables, so that each is evaluated once)
SortedSeq(S) ==
    CHOOSE q \in { [n \in 1..Cardinality(T) |->
                      CHOOSE x \in T : Cardinality({y \in T : y < x}) = n - 1] : T \in {S} } : TRUE

\* str.strip(): the string without its leading and trailing whitespace
Strip(s) ==
    IF \A k \in 1..Len(s) : IsSpace(s[k]) THEN << >>
    ELSE LET lead  == CHOOSE d \in 0..Len(s) :
                          ~IsSpace(s[d + 1]) /\ \A j \in 1..d : IsSpace(s[j])
             trail == CHOOSE d \in 0..Len(s) :
                          ~IsSpace(s[Len(s) - d]) /\ \A j \in (Len(s) - d + 1)..Len(s) : IsSpace(s[j])
         IN  SubSeq(s, lead + 1, Len(s) - trail)

\* str.split() with no argument: the maximal runs of non-whitespace characters,
\* in order; leading, trailing and repeated whitespace yields no empty token
Split(s) ==
    LET starts == {k \in 1..Len(s) : ~IsSpace(s[k]) /\ (k = 1 \/ IsSpace(s[k - 1]))}
        ends   == {k \in 1..Len(s) : ~IsSpace(s[k]) /\ (k = Len(s) \/ IsSpace(s[k + 1]))}
    IN  CHOOSE ws \in { [n \in 1..Len(ss) |-> SubSeq(s, ss[n], es[n])] :
                           ss \in {SortedSeq(starts)}, es \in {SortedSeq(ends)} } : TRUE

\* " ".join(ws)
RECURSIVE Join(_)
Join(ws) == IF Len(ws) = 0 THEN << >>
            ELSE IF Len(ws) = 1 THEN ws[1]
            ELSE ws[1] \o << " " >> \o Join(Tail(ws))

Digits == << "0", "1", "2", "3", "4", "5", "6", "7", "8", "9" >>

\* str(n) of a non-negative int, as the f-strings of lines 58 and 62 format it
RECURSIVE DecStr(_)
DecStr(n) == IF n < 10 THEN << Digits[n + 1] >>
             ELSE DecStr(n \div 10) \o << Digits[(n % 10) + 1] >>

-----------------------------------------------------------------------------
(* The messages of lines 44 and 62, as records of what the f-string           *)
(* interpolates into its fixed text                                           *)

\* line 44: f"Warning: Word '{word[:20]}...' is longer than content limit ({content_limit})"
WordWarning(word) ==
    [kind |-> "word_longer_than_content_limit", preview |-> Take(word, 20),
     limit |-> content_limit]

\* line 62: f"Tweet {i+1}/{total_chunks} exceeds {MAX_TWEET_LENGTH} characters ({len(formatted_tweet)})"
TweetWarning(i, total, tweet) ==
    [kind |-> "tweet_exceeds", index |-> i + 1, total |-> total,
     limit |-> MAX_TWEET_LENGTH, length |-> Len(tweet)]

\* the indicator numbered from 0: the `i+1` of line 58 written `i`
Indicator_zeroBased(i, total) == DecStr(i) \o << "/" >> \o DecStr(total)

\* lines 58-59: the indicator and the formatted tweet of chunk i (0-based) of total
Indicator(i, total) == DecStr(i + 1) \o << "/" >> \o DecStr(total)

FormatTweet(chunk, i, total) == chunk \o << " " >> \o Indicator(i, total)

\* line 61 with `>=` for `>`
ExceedsTweetLength_inclusive(tweet) == Len(tweet) >= MAX_TWEET_LENGTH

\* line 61
ExceedsTweetLength(tweet) == Len(tweet) > MAX_TWEET_LENGTH

\* lines 44 and 62 written warnings.insert(0, w)
AppendWarning_prepend(warns, w) == << w >> \o warns

\* lines 44 and 62: warnings.append(w)
AppendWarning(warns, w) == Append(warns, w)

\* line 38 comparing with MAX_TWEET_LENGTH: the indicator reserve forgotten
Overflows_noReserve(cur, word) == Len(Join(Append(cur, word))) > MAX_TWEET_LENGTH

\* line 38 with `>=` for `>`
Overflows_inclusive(cur, word) == Len(Join(Append(cur, word))) >= content_limit

\* line 38 closing the current chunk at every word
Overflows_everyWord(cur, word) == Len(Join(Append(cur, word))) > 0

\* lines 35-38: does the current chunk with `word` added overflow the content limit
Overflows(cur, word) ==
    LET potential_chunk_content == Join(Append(cur, word))
        potential_chunk_length == Len(potential_chunk_content)
    IN  potential_chunk_length > content_limit

\* lines 39-40 without the `if current_chunk_words:` guard
CloseChunk_unguarded(chs, cur) == Append(chs, Join(cur))

\* lines 39-40 and 48-49: `if current_chunk_words: chunks.append(" ".join(current_chunk_words))`
CloseChunk(chs, cur) == IF Len(cur) > 0 THEN Append(chs, Join(cur)) ELSE chs

\* line 41 written `current_chunk_words = []`: the word that overflowed is lost
NewChunk_dropsWord(word) == << >>

\* line 41: `current_chunk_words = [word]`
NewChunk(word) == << word >>

\* line 43 taking a word of exactly the content limit for too long
OversizedWord_inclusive(word) == Len(word) >= content_limit

\* line 43
OversizedWord(word) == Len(word) > content_limit

\* lines 34 and 57: the loop moves on to the next element
Advance(i) == i + 1

\* lines 22-23
BlankInput(t) == Len(t) = 0 \/ Len(Strip(t)) = 0

\* line 23 written `return [text], []`
EmptyResult_textAsTweet == << << text >>, << >> >>

\* line 23 written `return []`: one list, not the pair the callers unpack
EmptyResult_notAPair == << >>

\* line 23: `return [], []`
EmptyResult == << << >>, << >> >>

-----------------------------------------------------------------------------
(* Inputs *)

WordSet == { Rep("a", 1), Rep("a", 130), Rep("b", 134), Rep("b", 135),
             Rep("a", 265), Rep("b", 266), Rep("b", 276), Rep("a", 300) }

RepeatWords == { Rep("b", 135), Rep("a", 300) }

\* how the words of a text are laid out: the whitespace before the first word,
\* between two words and after the last word
Layouts == { [lead |-> << >>, sep |-> << " " >>, trail |-> << >>],
             [lead |-> << " " >>, sep |-> << "\n", "\t" >>, trail |-> << "\n" >>] }

RECURSIVE JoinWith(_, _)
JoinWith(ws, sep) == IF Len(ws) = 0 THEN << >>
                     ELSE IF Len(ws) = 1 THEN ws[1]
                     ELSE ws[1] \o sep \o JoinWith(Tail(ws), sep)

WordLists == UNION { [1..n -> WordSet] : n \in 0..MaxWords }

\* texts of up to MaxWords words, with or without surrounding whitespace
MixedTexts ==
    { l.lead \o JoinWith(ws, l.sep) \o l.trail : ws \in WordLists, l \in Layouts }

\* texts of one word repeated, long enough for indicators of two digits
RepeatedTexts ==
    { JoinWith([k \in 1..n |-> w], << " " >>) : w \in RepeatWords, n \in (MaxWords + 1)..MaxRepeat }

Texts == MixedTexts \cup RepeatedTexts

NoResult == << "none" >>

FmtOff == [pc |-> "off"]

\* no call of the other functions is under way
OthersOff ==
    /\ exp = [pc |-> "off"]
    /\ stats = [pc |-> "off"]
    /\ post = [pc |-> "off"]

\* chunk_text_for_twitter is not called
ChunkerOff ==
    /\ text = << >>
    /\ pc = "off"
    /\ words = << >>
    /\ wi = 1
    /\ chunks = << >>
    /\ current_chunk_words = << >>
    /\ warnings = << >>
    /\ total_chunks = 0
    /\ fi = 0
    /\ formatted_tweets = << >>
    /\ result = << "none" >>

-----------------------------------------------------------------------------
(* chunk_text_for_twitter *)

Init ==
    /\ text = << >>
    /\ pc = "idle"
    /\ words = << >>
    /\ wi = 1
    /\ chunks = << >>
    /\ current_chunk_words = << >>
    /\ warnings = << >>
    /\ total_chunks = 0
    /\ fi = 0
    /\ formatted_tweets = << >>
    /\ result = NoResult
    /\ fmt = FmtOff
    /\ OthersOff

\* line 6: the function is called with a string
Call ==
    /\ pc = "idle"
    /\ text' \in Texts
    /\ pc' = "call"
    /\ UNCHANGED <<words, wi, chunks, current_chunk_words, warnings,
                   total_chunks, fi, formatted_tweets, result, fmt, others>>

\* lines 22-23: `if not text or not text.strip(): return [], []`
ReturnEmpty ==
    /\ pc = "call"
    /\ BlankInput(text)
    /\ result' = EmptyResult
    /\ pc' = "done"
    /\ UNCHANGED <<text, words, wi, chunks, current_chunk_words, warnings,
                   total_chunks, fi, formatted_tweets, fmt, others>>

\* lines 25-32: the locals before the packing loop
Tokenize ==
    /\ pc = "call"
    /\ ~BlankInput(text)
    /\ words' = Split(text)
    /\ wi' = 1
    /\ chunks' = << >>
    /\ current_chunk_words' = << >>
    /\ warnings' = << >>
    /\ pc' = "pack"
    /\ UNCHANGED <<text, total_chunks, fi, formatted_tweets, result, fmt, others>>

\* lines 34-46: one iteration of `for word in words`
PackWord ==
    /\ pc = "pack"
    /\ wi <= Len(words)
    /\ LET word == words[wi]
       IN  IF Overflows(current_chunk_words, word)
           THEN /\ chunks' = CloseChunk(chunks, current_chunk_words)
                /\ current_chunk_words' = NewChunk(word)
                /\ warnings' = IF OversizedWord(word)
                               THEN AppendWarning(warnings, WordWarning(word))
                               ELSE warnings
           ELSE /\ current_chunk_words' = Append(current_chunk_words, word)
                /\ UNCHANGED <<chunks, warnings>>
    /\ wi' = Advance(wi)
    /\ UNCHANGED <<text, pc, words, total_chunks, fi, formatted_tweets, result, fmt, others>>

\* lines 48-55: close the last chunk, count the chunks, return if there is none
EndPack ==
    /\ pc = "pack"
    /\ wi > Len(words)
    /\ LET closed == CloseChunk(chunks, current_chunk_words)
       IN  /\ chunks' = closed
           /\ total_chunks' = Len(closed)
           /\ formatted_tweets' = << >>
           /\ fi' = 0
           /\ IF Len(closed) = 0
              THEN /\ result' = << << >>, warnings >>
                   /\ pc' = "done"
              ELSE /\ result' = result
                   /\ pc' = "format"
    /\ UNCHANGED <<text, words, wi, current_chunk_words, warnings, fmt, others>>

\* lines 57-64: one iteration of `for i, chunk in enumerate(chunks)`
FormatChunk ==
    /\ pc = "format"
    /\ fi < Len(chunks)
    /\ LET chunk == chunks[fi + 1]
           formatted_tweet == FormatTweet(chunk, fi, total_chunks)
       IN  /\ warnings' = IF ExceedsTweetLength(formatted_tweet)
                          THEN AppendWarning(warnings, TweetWarning(fi, total_chunks, formatted_tweet))
                          ELSE warnings
           /\ formatted_tweets' = Append(formatted_tweets, formatted_tweet)
    /\ fi' = Advance(fi)
    /\ UNCHANGED <<text, pc, words, wi, chunks, current_chunk_words,
                   total_chunks, result, fmt, others>>

\* line 66
Return ==
    /\ pc = "format"
    /\ fi >= Len(chunks)
    /\ result' = << formatted_tweets, warnings >>
    /\ pc' = "done"
    /\ UNCHANGED <<text, words, wi, chunks, current_chunk_words, warnings,
                   total_chunks, fi, formatted_tweets, fmt, others>>

Next ==
    \/ Call
    \/ ReturnEmpty
    \/ Tokenize
    \/ PackWord
    \/ EndPack
    \/ FormatChunk
    \/ Return

Spec == Init /\ [][Next]_vars

\* The for loops of lines 34 and 57 run over finite lists and nothing in the
\* function waits on anything: a call that can take a step takes it.
LiveSpec == Spec /\ WF_vars(Next)

-----------------------------------------------------------------------------
(* One iteration of the format loop (lines 57-64), taken alone.  The iteration *)
(* reads only chunk, i and total_chunks, so it is checked here for thread      *)
(* lengths far beyond what the packing loop of the model can walk through.     *)
(* Every input below is one the loop meets: a text of `total` chunks, all      *)
(* single words of content_limit characters but for the chunk at position i.   *)

\* what the packing loop closes: words that fit together, or one word alone
FmtChunks ==
    { Join(ws) : ws \in { v \in UNION { [1..n -> WordSet] : n \in 1..2 } :
                            Len(v) = 1 \/ ~Overflows(<< v[1] >>, v[2]) } }

FmtTotals == { 1, 9, 10, 99, 100, 999999, 1000000 }

FmtInit ==
    /\ fmt \in { [pc |-> "in", chunk |-> c, i |-> i, total |-> t] :
                    c \in FmtChunks, t \in FmtTotals, i \in { 0, 8, 9, 999999 } }
    /\ fmt.i < fmt.total
    /\ ChunkerOff
    /\ OthersOff

\* lines 58-64 for the chunk at index fmt.i of fmt.total
FormatOne ==
    /\ fmt.pc = "in"
    /\ LET formatted_tweet == FormatTweet(fmt.chunk, fmt.i, fmt.total)
       IN  fmt' = [pc |-> "out", chunk |-> fmt.chunk, i |-> fmt.i, total |-> fmt.total,
                   tweet |-> formatted_tweet,
                   warnings |-> IF ExceedsTweetLength(formatted_tweet)
                                THEN AppendWarning(<< >>, TweetWarning(fmt.i, fmt.total, formatted_tweet))
                                ELSE << >>]
    /\ UNCHANGED <<chunker, others>>

FmtNext == FormatOne

FmtSpec == FmtInit /\ [][FmtNext]_vars

-----------------------------------------------------------------------------
(* format_thread_for_export (src/twitter_chunker.py, lines 94-105) *)

\* line 105 with the separator written after every tweet instead of between them
format_thread_for_export_trailing(tweets, separator) ==
    JoinWith([k \in 1..Len(tweets) |-> tweets[k] \o separator], << >>)

\* line 105: `separator.join(tweets)`
format_thread_for_export(tweets, separator) == JoinWith(tweets, separator)

\* line 94: the default separator, "\n\n---\n\n"
DefaultSeparator == << "\n", "\n", "-", "-", "-", "\n", "\n" >>

ExportSeparators ==
    { << >>, << "-" >>, << "-", "-" >>, << "-", "a" >>, DefaultSeparator }

\* the strings over {a, -} of up to two characters
ExportSegments == UNION { [1..n -> {"a", "-"}] : n \in 0..2 }

ExportInit ==
    /\ exp \in { [pc |-> "call", tweets |-> ts, separator |-> sep] :
                    ts \in UNION { [1..n -> ExportSegments] : n \in 0..MaxSegments },
                    sep \in ExportSeparators }
    /\ ChunkerOff
    /\ fmt = FmtOff
    /\ stats = [pc |-> "off"]
    /\ post = [pc |-> "off"]

Export ==
    /\ exp.pc = "call"
    /\ exp' = [pc |-> "done", tweets |-> exp.tweets, separator |-> exp.separator,
               out |-> format_thread_for_export(exp.tweets, exp.separator)]
    /\ UNCHANGED <<chunker, fmt, stats, post>>

ExportNext == Export

ExportSpec == ExportInit /\ [][ExportNext]_vars

-----------------------------------------------------------------------------
(* post_thread and its collaborators (src/twitter_poster.py) *)

MaxThread == 3

\* line 71 and line 138: the literal 280
POST_LIMIT == 280

\* line 134: the literal 25
THREAD_LIMIT == 25

\* Python's None, and a value that is not None: an optional value is a
\* sequence of no or one element
None == << >>
Some(v) == << v >>

\* line 66: "No tweets to post"
NoTweetsToPost == [kind |-> "no_tweets_to_post"]

\* lines 72 and 139: f"Tweet {i+1} exceeds 280 characters ({len(tweet)})"
ExceedsError(i, tweet) ==
    [kind |-> "tweet_exceeds", index |-> i + 1, limit |-> POST_LIMIT, length |-> Len(tweet)]

\* line 106: f"Failed to post tweet {i+1}"
FailedError(i) == [kind |-> "failed_to_post", index |-> i + 1]

\* line 131, line 135, line 142
NoTweetsToValidate == [kind |-> "no_tweets_to_validate"]
ThreadTooLong == [kind |-> "thread_too_long", limit |-> THREAD_LIMIT]
EmptyError(i) == [kind |-> "tweet_empty", index |-> i + 1]

\* lines 70-72: one error for every tweet longer than 280, in list order
LengthErrors(tweets) ==
    LET Over(k) == Len(tweets[k]) > POST_LIMIT
        sel == SelectSeq([k \in 1..Len(tweets) |-> k], Over)
    IN  [j \in 1..Len(sel) |-> ExceedsError(sel[j] - 1, tweets[sel[j]])]

\* lines 137-142: the errors of the tweets from the k-th on
RECURSIVE TweetErrors(_, _)
TweetErrors(tweets, k) ==
    IF k > Len(tweets) THEN << >>
    ELSE (IF Len(tweets[k]) > POST_LIMIT THEN << ExceedsError(k - 1, tweets[k]) >> ELSE << >>)
         \o (IF Strip(tweets[k]) = << >> THEN << EmptyError(k - 1) >> ELSE << >>)
         \o TweetErrors(tweets, k + 1)

\* lines 118-144
validate_thread_for_posting(tweets) ==
    IF tweets = << >> THEN << NoTweetsToValidate >>
    ELSE (IF Len(tweets) > THREAD_LIMIT THEN << ThreadTooLong >> ELSE << >>)
         \o TweetErrors(tweets, 1)

\* lines 58-63
InitialResults ==
    [success_count |-> 0, posted_tweets |-> << >>, errors |-> << >>, thread_url |-> None]

\* lines 65-75: the errors post_thread finds before it posts anything
PreErrors(tweets) ==
    IF tweets = << >> THEN << NoTweetsToPost >> ELSE LengthErrors(tweets)

\* line 38: f"https://twitter.com/user/status/{response.data['id']}"
StatusUrl(id) == << "https://twitter.com/user/status/", id >>

\* lines 24-44: `response` is what the service answered, None when there is no
\* client, the call raised or the answer holds no data
post_single_tweet(txt, reply_to_id, response) ==
    IF response = None THEN None
    ELSE Some([id |-> response[1].id, text |-> txt, url |-> StatusUrl(response[1].id)])

\* the answers of the service to the n-th call of create_tweet: none, or the
\* data of a new tweet, whose id no earlier tweet has
Responses(n) == { None, Some([id |-> DecStr(n)]) }

\* lines 93-99 without the increment of line 94
Posted_noCount(results, tweet_result, i) ==
    [results EXCEPT !.posted_tweets = Append(@, tweet_result),
                    !.thread_url = IF i = 0 THEN Some(tweet_result.url) ELSE @]

\* lines 93-99: the results after tweet i (0-based) was posted
Posted(results, tweet_result, i) ==
    [results EXCEPT !.posted_tweets = Append(@, tweet_result),
                    !.success_count = @ + 1,
                    !.thread_url = IF i = 0 THEN Some(tweet_result.url) ELSE @]

\* line 95 keeping the reply target of the tweet before
NextReplyTo_stale(reply_to_id, tweet_result) == reply_to_id

\* line 95: `reply_to_id = tweet_result["id"]`
NextReplyTo(reply_to_id, tweet_result) == Some(tweet_result.id)

\* line 211, line 217, line 220: the branch show_posting_results takes
ShownBranch(results) ==
    IF results.success_count = 0 THEN "failed_to_post_any"
    ELSE IF results.success_count = Len(results.posted_tweets) THEN "posted_all"
    ELSE "some_failed"

PostTweets == { Rep("a", 1), Rep("b", POST_LIMIT), Rep("c", POST_LIMIT + 1) }

\* every thread of up to MaxThread tweets, and the threads of one-character
\* tweets around the limit of line 134
PostThreads ==
    UNION { [1..n -> PostTweets] : n \in 0..MaxThread }
    \cup { [k \in 1..n |-> Rep("a", 1)] : n \in {THREAD_LIMIT, THREAD_LIMIT + 1} }

PostInit ==
    /\ post \in { [pc |-> "call", tweets |-> ts, results |-> InitialResults, i |-> 0,
                    reply_to_id |-> None, calls |-> << >>, shown |-> "nothing"] :
                     ts \in PostThreads }
    /\ ChunkerOff
    /\ fmt = FmtOff
    /\ exp = [pc |-> "off"]
    /\ stats = [pc |-> "off"]

\* lines 58-81
PostValidate ==
    /\ post.pc = "call"
    /\ post' = [post EXCEPT !.results = [InitialResults EXCEPT !.errors = PreErrors(post.tweets)],
                            !.pc = IF PreErrors(post.tweets) # << >> THEN "returned" ELSE "walk",
                            !.i = 0,
                            !.reply_to_id = None]
    /\ UNCHANGED <<chunker, fmt, exp, stats>>

\* lines 83-109, one turn of the loop; `calls` records every call of
\* post_single_tweet with its arguments and whether it returned a result
PostSubmit ==
    /\ post.pc = "walk"
    /\ post.i < Len(post.tweets)
    /\ \E response \in Responses(Len(post.calls) + 1) :
          LET tweet_text == post.tweets[post.i + 1]
              tweet_result == post_single_tweet(tweet_text, post.reply_to_id, response)
              call == [text |-> tweet_text, reply_to_id |-> post.reply_to_id,
                       result |-> tweet_result]
          IN  IF tweet_result # None
              THEN post' = [post EXCEPT !.results = Posted(@, tweet_result[1], post.i),
                                        !.reply_to_id = NextReplyTo(@, tweet_result[1]),
                                        !.calls = Append(@, call),
                                        !.i = Advance(@)]
              ELSE post' = [post EXCEPT !.results.errors = Append(@, FailedError(post.i)),
                                        !.calls = Append(@, call),
                                        !.pc = "returned"]
    /\ UNCHANGED <<chunker, fmt, exp, stats>>

\* lines 83 and 111-115: the loop is over
PostReturn ==
    /\ post.pc = "walk"
    /\ post.i >= Len(post.tweets)
    /\ post' = [post EXCEPT !.pc = "returned"]
    /\ UNCHANGED <<chunker, fmt, exp, stats>>

\* lines 204-220, called with the results of post_thread (src/app.py, line 205)
ShowResults ==
    /\ post.pc = "returned"
    /\ post' = [post EXCEPT !.pc = "shown", !.shown = ShownBranch(post.results)]
    /\ UNCHANGED <<chunker, fmt, exp, stats>>

PostNext == PostValidate \/ PostSubmit \/ PostReturn \/ ShowResults

PostSpec == PostInit /\ [][PostNext]_vars

-----------------------------------------------------------------------------
(* get_thread_stats (src/twitter_chunker.py, lines 69-91) *)

\* line 90: the literal 280
STATS_LIMIT == 280

\* line 82: `[len(tweet) for tweet in tweets]`
Lengths(tweets) == [k \in 1..Len(tweets) |-> Len(tweets[k])]

\* sum(lengths)
RECURSIVE Sum(_)
Sum(lengths) == IF lengths = << >> THEN 0 ELSE Head(lengths) + Sum(Tail(lengths))

\* max(lengths) and min(lengths) of a non-empty list
Max(lengths) ==
    CHOOSE m \in { lengths[k] : k \in 1..Len(lengths) } :
        \A k \in 1..Len(lengths) : lengths[k] <= m

Min(lengths) ==
    CHOOSE m \in { lengths[k] : k \in 1..Len(lengths) } :
        \A k \in 1..Len(lengths) : lengths[k] >= m

\* line 90 counting the lengths of exactly 280 too
CountOverLimit_inclusive(lengths) ==
    Len(SelectSeq(lengths, LAMBDA l : l >= STATS_LIMIT))

\* line 90: `len([l for l in lengths if l > 280])`
CountOverLimit(lengths) ==
    Len(SelectSeq(lengths, LAMBDA l : l > STATS_LIMIT))

\* line 80: the empty dict
EmptyStats == [k \in {} |-> 0]

\* lines 79-91; the quotient of line 87 is kept as numerator and denominator
get_thread_stats(tweets) ==
    IF tweets = << >> THEN EmptyStats
    ELSE [total_tweets |-> Len(tweets),
          total_characters |-> Sum(Lengths(tweets)),
          avg_length |-> [num |-> Sum(Lengths(tweets)), den |-> Len(Lengths(tweets))],
          max_length |-> Max(Lengths(tweets)),
          min_length |-> Min(Lengths(tweets)),
          tweets_over_limit |-> CountOverLimit(Lengths(tweets))]

StatsTweets ==
    { Rep("a", n) : n \in {0, 1, STATS_LIMIT - 1, STATS_LIMIT, STATS_LIMIT + 1, STATS_LIMIT + 20} }

StatsInit ==
    /\ stats \in { [pc |-> "call", tweets |-> ts] :
                      ts \in UNION { [1..n -> StatsTweets] : n \in 0..MaxSegments } }
    /\ ChunkerOff
    /\ fmt = FmtOff
    /\ exp = [pc |-> "off"]
    /\ post = [pc |-> "off"]

GetStats ==
    /\ stats.pc = "call"
    /\ stats' = [pc |-> "done", tweets |-> stats.tweets, out |-> get_thread_stats(stats.tweets)]
    /\ UNCHANGED <<chunker, fmt, exp, post>>

StatsNext == GetStats

StatsSpec == StatsInit /\ [][StatsNext]_vars

-----------------------------------------------------------------------------
(* Vocabulary of the properties *)

IsBlank(s) == \A k \in 1..Len(s) : IsSpace(s[k])

RECURSIVE Flatten(_)
Flatten(ss) == IF Len(ss) = 0 THEN << >> ELSE ss[1] \o Flatten(Tail(ss))

\* the words of every chunk, in chunk order
ChunkWords == Flatten([k \in 1..Len(chunks) |-> Split(chunks[k])])

DigitValue(c) ==
    CASE c = "0" -> 0 [] c = "1" -> 1 [] c = "2" -> 2 [] c = "3" -> 3 [] c = "4" -> 4
      [] c = "5" -> 5 [] c = "6" -> 6 [] c = "7" -> 7 [] c = "8" -> 8 [] c = "9" -> 9

\* a decimal numeral without sign, separator or leading zero
IsDecimal(ds) ==
    /\ Len(ds) >= 1
    /\ \A k \in 1..Len(ds) : ds[k] \in {"0", "1", "2", "3", "4", "5", "6", "7", "8", "9"}
    /\ Len(ds) > 1 => ds[1] # "0"

RECURSIVE ParseDec(_)
ParseDec(ds) == IF Len(ds) = 1 THEN DigitValue(ds[1])
                ELSE 10 * ParseDec(SubSeq(ds, 1, Len(ds) - 1)) + DigitValue(ds[Len(ds)])

IsWordWarning(w) == w.kind = "word_longer_than_content_limit"

IsTweetWarning(w) == w.kind = "tweet_exceeds"

\* the positions of the segments longer than 280, ascending
OverLimit(tweets) == SortedSeq({ i \in 1..Len(tweets) : Len(tweets[i]) > 280 })

\* segment `seg` is `chunk`, one space, and the decimal indicator i/total
IsSegmentOf(seg, chunk, i, total) ==
    /\ Len(seg) >= Len(chunk) + 4
    /\ SubSeq(seg, 1, Len(chunk)) = chunk
    /\ seg[Len(chunk) + 1] = " "
    /\ LET ind   == SubSeq(seg, Len(chunk) + 2, Len(seg))
           slash == { k \in 1..Len(ind) : ind[k] = "/" }
       IN  /\ Cardinality(slash) = 1
           /\ LET p     == CHOOSE k \in slash : TRUE
                  left  == SubSeq(ind, 1, p - 1)
                  right == SubSeq(ind, p + 1, Len(ind))
              IN  /\ IsDecimal(left)
                  /\ IsDecimal(right)
                  /\ ParseDec(left) = i
                  /\ ParseDec(right) = total

-----------------------------------------------------------------------------
(* Properties *)

\* the string is one word: not empty and without whitespace
IsOneWord(s) == Len(s) > 0 /\ \A k \in 1..Len(s) : ~IsSpace(s[k])

\* C1: for a non-empty input, the words of all chunks, concatenated in chunk
\* order, are exactly the whitespace tokenization of the input: no word is
\* dropped, duplicated, split or reordered.
C1_WordsPreserved ==
    (pc = "done" /\ Len(text) > 0) => ChunkWords = Split(text)

C1_Witness ==
    /\ pc = "done"
    /\ Len(chunks) = 2
    /\ Len(ChunkWords) = 3
    /\ ChunkWords[1] # ChunkWords[2]
    /\ ChunkWords[2] # ChunkWords[3]

\* C2: content_limit is 280 - 15 = 265, and every chunk the packing loop has
\* closed has joined content length <= 265, except a chunk that is exactly one
\* word whose own length exceeds 265.
C2_ChunkWithinContentLimit ==
    /\ content_limit = 265
    /\ \A k \in 1..Len(chunks) :
          \/ Len(chunks[k]) <= 265
          \/ IsOneWord(chunks[k]) /\ Len(chunks[k]) > 265

C2_Witness ==
    /\ pc = "done"
    /\ \E k \in 1..Len(chunks) : Len(chunks[k]) = 265 /\ Len(Split(chunks[k])) = 2
    /\ \E k \in 1..Len(chunks) : Len(chunks[k]) > 265

\* C3: a formatted segment is longer than 280 only when its chunk is a single
\* word longer than 265; a segment whose chunk content is <= 265 characters
\* never exceeds 280 once " i/total" is appended, whatever the number of chunks.
C3_OnlyOversizedWordExceeds ==
    (fmt.pc = "out" /\ Len(fmt.tweet) > 280) =>
        (IsOneWord(fmt.chunk) /\ Len(fmt.chunk) > 265)

\* C4: a final-length warning naming the index, the total and the actual
\* length is appended exactly when the formatted segment at that index is
\* longer than 280, and the segment is returned unaltered at that index: there
\* are as many final-length warnings as returned segments longer than 280.
C4_FinalLengthWarnings ==
    pc \in {"format", "done"} =>
        LET tw   == SelectSeq(warnings, IsTweetWarning)
            over == OverLimit(formatted_tweets)
        IN  /\ Len(tw) = Len(over)
            /\ \A n \in 1..Len(tw) :
                  /\ tw[n].index = over[n]
                  /\ tw[n].total = Len(chunks)
                  /\ tw[n].length = Len(formatted_tweets[over[n]])
            /\ pc = "done" =>
                  /\ Len(SelectSeq(result[2], IsTweetWarning)) = Len(OverLimit(result[1]))
                  /\ \A n \in 1..Len(tw) :
                        /\ tw[n].index \in 1..Len(result[1])
                        /\ Len(result[1][tw[n].index]) = tw[n].length
                        /\ SubSeq(result[1][tw[n].index], 1, Len(chunks[tw[n].index]))
                             = chunks[tw[n].index]

C4_Witness ==
    /\ pc = "done"
    /\ \E i \in 1..Len(result[1]) : Len(result[1][i]) = 280
    /\ \E i \in 1..Len(result[1]) : Len(result[1][i]) > 280

\* C5: the number of segments equals the number of chunks, and the segment at
\* 1-based position i is exactly the chunk content, one space, and "i/total" in
\* decimal without leading zeros, total being the number of segments.
C5_SegmentFormat ==
    pc = "done" =>
        /\ Len(result[1]) = Len(chunks)
        /\ \A i \in 1..Len(result[1]) :
              IsSegmentOf(result[1][i], chunks[i], i, Len(result[1]))

C5_Witness ==
    /\ pc = "done"
    /\ Len(result[1]) >= 10

\* the length of the words `ws` joined by single spaces
RECURSIVE SumLen(_)
SumLen(ws) == IF Len(ws) = 0 THEN 0 ELSE Len(ws[1]) + SumLen(Tail(ws))

JoinedLength(ws) == IF Len(ws) = 0 THEN 0 ELSE SumLen(ws) + (Len(ws) - 1)

\* C6: in the packing loop, when the current chunk's words plus the next word,
\* joined by single spaces, have length exactly 265, the word is appended to
\* the current chunk and no chunk is closed; when that length is 266, the
\* current chunk (if it holds any word) is closed and the word starts a new chunk.
C6_Boundary ==
    [][ (pc = "pack" /\ wi <= Len(words)) =>
          LET word   == words[wi]
              joined == JoinedLength(Append(current_chunk_words, word))
          IN  /\ joined = 265 =>
                    /\ current_chunk_words' = Append(current_chunk_words, word)
                    /\ chunks' = chunks
              /\ joined = 266 =>
                    /\ current_chunk_words' = << word >>
                    /\ chunks' = IF Len(current_chunk_words) > 0
                                 THEN Append(chunks, Join(current_chunk_words))
                                 ELSE chunks
                    /\ Len(current_chunk_words) > 0 => Len(chunks') = Len(chunks) + 1 ]_vars

\* "b*135 a*130 b*134": 135 + 1 + 130 = 266 closed the first chunk, then
\* 130 + 1 + 134 = 265 stayed in the current one
C6_Witness ==
    /\ pc = "pack"
    /\ Len(chunks) = 1
    /\ Len(current_chunk_words) = 2
    /\ Len(chunks[1]) + 1 + Len(current_chunk_words[1]) = 266
    /\ JoinedLength(current_chunk_words) = 265

\* C7: called with the empty string or with a string of whitespace only, the
\* function returns an empty segment list and an empty warning list.
C7_BlankInput ==
    (pc = "done" /\ IsBlank(text)) => result = << << >>, << >> >>

C7_Witness ==
    /\ pc = "done"
    /\ Len(text) > 0
    /\ IsBlank(text)

IsResultPair(r) ==
    /\ Len(r) = 2
    /\ \A k \in 1..Len(r[1]) : Len(r[1][k]) > 0
    /\ \A k \in 1..Len(r[2]) : IsWordWarning(r[2][k]) \/ IsTweetWarning(r[2][k])

\* C8: for every input string the function terminates and returns a
\* (segments, warnings) pair; no input ends anywhere else.
C8_Terminates == <>(pc = "done" /\ IsResultPair(result))

C8_Witness ==
    /\ pc = "done"
    /\ IsResultPair(result)
    /\ \E k \in 1..Len(result[2]) : IsWordWarning(result[2][k])
    /\ \E k \in 1..Len(result[2]) : IsTweetWarning(result[2][k])

\* C9: an input that is a single word of length 300 yields exactly one chunk
\* holding that word, exactly one segment, the word followed by " 1/1", of
\* length 304, and exactly two warnings: the oversized word, then the segment
\* longer than 280.
C9_SingleWordOf300 ==
    LET w == Strip(text)
    IN  (pc = "done" /\ Len(w) = 300 /\ IsOneWord(w)) =>
            /\ chunks = << w >>
            /\ result[1] = << w \o << " ", "1", "/", "1" >> >>
            /\ Len(result[1][1]) = 304
            /\ Len(result[2]) = 2
            /\ IsWordWarning(result[2][1])
            /\ result[2][1].preview = SubSeq(w, 1, 20)
            /\ result[2][1].limit = 265
            /\ IsTweetWarning(result[2][2])
            /\ result[2][2].index = 1
            /\ result[2][2].total = 1
            /\ result[2][2].limit = 280
            /\ result[2][2].length = 304

C9_Witness ==
    /\ pc = "done"
    /\ Len(text) = 300
    /\ IsOneWord(text)
    /\ Len(result[2]) = 2

IsOversized(w) == Len(w) > 265

\* C10: in the warning list, every oversized-word warning comes before every
\* final-length warning; the oversized-word warnings are in word order and the
\* final-length warnings in ascending segment index.
C10_WarningOrder ==
    (pc = "done" /\ ~IsBlank(text)) =>
        LET ws  == result[2]
            ww  == SelectSeq(ws, IsWordWarning)
            tw  == SelectSeq(ws, IsTweetWarning)
            big == SelectSeq(Split(text), IsOversized)
        IN  /\ ws = ww \o tw
            /\ Len(ww) = Len(big)
            /\ \A n \in 1..Len(ww) : ww[n].preview = SubSeq(big[n], 1, 20)
            /\ \A n \in 1..(Len(tw) - 1) : tw[n].index < tw[n + 1].index

C10_Witness ==
    /\ pc = "done"
    /\ Len(SelectSeq(result[2], IsTweetWarning)) >= 2
    /\ LET ww == SelectSeq(result[2], IsWordWarning)
       IN  Len(ww) >= 3 /\ ww[1].preview # ww[2].preview

\* `sep` occurs in `s` at position p
OccursAt(s, sep, p) ==
    /\ p + Len(sep) - 1 <= Len(s)
    /\ SubSeq(s, p, p + Len(sep) - 1) = sep

\* `sep` is a substring of `s` (the empty string is a substring of every string)
Contains(s, sep) == \E p \in 1..(Len(s) + 1) : OccursAt(s, sep, p)

\* s.split(sep) for a non-empty sep: cut at the leftmost occurrence, go on after it
RECURSIVE SplitOn(_, _)
SplitOn(s, sep) ==
    IF ~Contains(s, sep) THEN << s >>
    ELSE LET p == CHOOSE q \in 1..Len(s) :
                      OccursAt(s, sep, q) /\ \A r \in 1..(q - 1) : ~OccursAt(s, sep, r)
         IN  << SubSeq(s, 1, p - 1) >> \o SplitOn(SubSeq(s, p + Len(sep), Len(s)), sep)

\* splitting exp.out on the separator succeeds (an empty separator raises
\* ValueError) and gives back the segment list
RoundTrips ==
    /\ Len(exp.separator) > 0
    /\ SplitOn(exp.out, exp.separator) = exp.tweets

\* an occurrence of the separator starts inside segment k and runs into the
\* separator written after it
Straddles(k) ==
    \E p \in 1..Len(exp.tweets[k]) : OccursAt(exp.tweets[k] \o exp.separator, exp.separator, p)

\* C11 as stated: for every segment list and separator such that no segment
\* contains the separator, splitting the export on it gives back the list.
C11_RoundTripAsStated ==
    (exp.pc = "done" /\ \A k \in 1..Len(exp.tweets) : ~Contains(exp.tweets[k], exp.separator))
        => RoundTrips

\* C11 amended: for every non-empty segment list and separator such that no
\* segment contains the separator and no occurrence of the separator starts
\* inside a segment and ends in the separator written after it, splitting the
\* export on the separator gives back the list.
C11_RoundTrip ==
    ( /\ exp.pc = "done"
      /\ Len(exp.tweets) > 0
      /\ \A k \in 1..Len(exp.tweets) : ~Contains(exp.tweets[k], exp.separator)
      /\ \A k \in 1..(Len(exp.tweets) - 1) : ~Straddles(k) )
        => RoundTrips

C11_Witness ==
    /\ exp.pc = "done"
    /\ Len(exp.tweets) = 3
    /\ exp.separator = << "-", "-" >>
    /\ exp.tweets[1] = << "-", "a" >>
    /\ exp.tweets[2] = << >>
    /\ \A k \in 1..Len(exp.tweets) : ~Contains(exp.tweets[k], exp.separator)
    /\ \A k \in 1..(Len(exp.tweets) - 1) : ~Straddles(k)
    /\ RoundTrips

\* the calls of post_single_tweet that returned a result come first in `calls`:
\* their number
Successes == Cardinality({ k \in 1..Len(post.calls) : post.calls[k].result # None })

\* validate_thread_for_posting finds the thread too long or a tweet over 280
FailsValidation ==
    \E k \in 1..Len(validate_thread_for_posting(post.tweets)) :
        validate_thread_for_posting(post.tweets)[k].kind \in {"thread_too_long", "tweet_exceeds"}

\* C12: when a segment exceeds 280 characters or the thread has more than 25
\* segments, post_thread submits nothing (no call of post_single_tweet,
\* success_count = 0, posted_tweets empty) and returns validation errors.
C12_Revalidates ==
    FailsValidation =>
        /\ post.calls = << >>
        /\ post.results.success_count = 0
        /\ post.results.posted_tweets = << >>
        /\ post.pc \in {"returned", "shown"} => post.results.errors # << >>

\* C13: the k-th call of post_single_tweet submits the k-th segment, the first
\* with no reply target and each later one as a reply to the id returned by
\* the call before it; a failed call is the last call, it records one error,
\* and the results of the successful calls before it are kept.
C13_ChainOrder ==
    /\ \A k \in 1..Len(post.calls) :
          /\ post.calls[k].text = post.tweets[k]
          /\ post.calls[k].reply_to_id =
                 IF k = 1 THEN None ELSE Some(post.calls[k - 1].result[1].id)
          /\ k < Len(post.calls) => post.calls[k].result # None
    /\ post.calls # << >> => PreErrors(post.tweets) = << >>
    /\ post.results.posted_tweets = [k \in 1..Successes |-> post.calls[k].result[1]]
    /\ (post.calls # << >> /\ post.calls[Len(post.calls)].result = None) =>
          /\ post.pc \in {"returned", "shown"}
          /\ post.results.errors = << FailedError(Len(post.calls) - 1) >>
    /\ (post.calls # << >> /\ post.calls[Len(post.calls)].result # None) =>
          post.results.errors = << >>

C13_Witness ==
    /\ post.pc = "returned"
    /\ Len(post.calls) = 3
    /\ post.calls[3].result = None
    /\ post.calls[3].reply_to_id = Some(post.calls[2].result[1].id)
    /\ Len(post.results.posted_tweets) = 2
    /\ Len(post.results.errors) = 1

\* C17: success_count equals the length of posted_tweets; thread_url is set
\* exactly when the first segment was submitted successfully (to the url of
\* that segment); show_posting_results never takes the "some failed" branch,
\* and after a walk halted by a failure with an earlier success it takes the
\* "Successfully posted all" branch.
C17_CountMatchesPosted ==
    /\ post.results.success_count = Len(post.results.posted_tweets)
    /\ post.results.thread_url # None <=>
          (post.calls # << >> /\ post.calls[1].result # None)
    /\ post.results.thread_url # None =>
          post.results.thread_url = Some(post.calls[1].result[1].url)
    /\ post.shown # "some_failed"
    /\ ( /\ post.pc = "shown"
         /\ post.calls # << >>
         /\ post.calls[Len(post.calls)].result = None
         /\ post.results.success_count > 0 ) => post.shown = "posted_all"

C17_Witness ==
    /\ post.pc = "shown"
    /\ Len(post.calls) = 2
    /\ post.calls[2].result = None
    /\ post.results.success_count = 1
    /\ post.results.errors = << FailedError(1) >>
    /\ post.results.thread_url # None
    /\ post.shown = "posted_all"

\* C14: get_thread_stats returns an empty result for an empty segment list;
\* for a non-empty list total_tweets is the number of segments,
\* total_characters the sum of their lengths, max_length and min_length the
\* largest and the smallest length, and tweets_over_limit the number of
\* segments longer than 280.
C14_Stats ==
    stats.pc = "done" =>
        IF Len(stats.tweets) = 0 THEN DOMAIN stats.out = {}
        ELSE /\ DOMAIN stats.out = {"total_tweets", "total_characters", "avg_length",
                                    "max_length", "min_length", "tweets_over_limit"}
             /\ stats.out.total_tweets = Len(stats.tweets)
             /\ stats.out.total_characters = SumLen(stats.tweets)
             /\ \A k \in 1..Len(stats.tweets) :
                   /\ Len(stats.tweets[k]) <= stats.out.max_length
                   /\ Len(stats.tweets[k]) >= stats.out.min_length
             /\ \E k \in 1..Len(stats.tweets) : Len(stats.tweets[k]) = stats.out.max_length
             /\ \E k \in 1..Len(stats.tweets) : Len(stats.tweets[k]) = stats.out.min_length
             /\ stats.out.tweets_over_limit = Len(OverLimit(stats.tweets))

C14_Witness ==
    /\ stats.pc = "done"
    /\ Len(stats.tweets) = 3
    /\ Len(stats.tweets[1]) = 280
    /\ Len(stats.tweets[2]) = 281
    /\ Len(stats.tweets[3]) = 1
    /\ stats.out.tweets_over_limit = 1
    /\ stats.out.total_characters = 562
    /\ stats.out.max_length = 281
    /\ stats.out.min_length = 1

\* C15: every word longer than 265 is a chunk of its own, whatever words come
\* before and after it (the chunks longer than 265 are, in order, the words
\* longer than 265), and each such word produces exactly one oversized-word
\* warning, a word of length <= 265 none: during the packing there are as many
\* oversized-word warnings as oversized words among the words packed, and the
\* n-th warning shows the first 20 characters of the n-th oversized word.
C15_OversizedWordAlone ==
    /\ pc = "pack" =>
          Len(SelectSeq(warnings, IsWordWarning))
              = Len(SelectSeq(SubSeq(words, 1, wi - 1), IsOversized))
    /\ (pc = "done" /\ ~IsBlank(text)) =>
          LET big == SelectSeq(Split(text), IsOversized)
              ww  == SelectSeq(result[2], IsWordWarning)
          IN  /\ SelectSeq(chunks, IsOversized) = big
              /\ Len(ww) = Len(big)
              /\ \A n \in 1..Len(ww) :
                    ww[n].preview = SubSeq(big[n], 1, 20) /\ ww[n].limit = 265

C15_Witness ==
    /\ pc = "done"
    /\ Len(words) = 3
    /\ Len(words[1]) = 1
    /\ Len(words[2]) = 300
    /\ Len(words[3]) = 1
    /\ chunks = << words[1], words[2], words[3] >>
    /\ Len(SelectSeq(result[2], IsWordWarning)) = 1

\* the length of the first word of a chunk
FirstWordLength(chunk) ==
    IF \E k \in 1..Len(chunk) : chunk[k] = " "
    THEN (CHOOSE k \in 1..Len(chunk) :
              chunk[k] = " " /\ \A j \in 1..(k - 1) : chunk[j] # " ") - 1
    ELSE Len(chunk)

\* C16: no chunk is empty, and for every two consecutive chunks k and k+1 the
\* content of chunk k, one space and the first word of chunk k+1 have a length
\* greater than 265.
C16_GreedyMaximal ==
    /\ \A k \in 1..Len(chunks) : Len(chunks[k]) > 0
    /\ \A k \in 1..(Len(chunks) - 1) :
          Len(chunks[k]) + 1 + FirstWordLength(chunks[k + 1]) > 265

C16_Witness ==
    /\ pc = "done"
    /\ Len(chunks) = 2
    /\ Len(words) = 3
    /\ Len(chunks[1]) = 261
    /\ FirstWordLength(chunks[1]) = 130
    /\ Len(chunks[2]) = 134
    /\ Len(chunks[1]) + 1 + FirstWordLength(chunks[2]) > 265

====
